---- MODULE Spec2Model ----
(***************************************************************************)
(* The aggregate store of lgr-jira-clone (src/src/db.rs): one persisted    *)
(* document holding epics, stories and the last-item marker, and the six   *)
(* operations of JiraDataBase, each a read of the whole document, a change *)
(* of the in-memory copy and a write of the whole document.                *)
(*                                                                         *)
(* On top of it the Navigator (src/src/navigators.rs): the stack of pages  *)
(* and handle_action, which turns an Action into at most one store call    *)
(* and a change of the stack; and the loop of main (src/src/main.rs).      *)
(*                                                                         *)
(* Spec        the store called directly, with any arguments               *)
(* NavSpec     handle_action called directly, with any Action on any stack *)
(* MainSpec    the loop of main driving handle_action                      *)
(* BackendSpec read_db and write_db of the two backends called directly    *)
(* SpanSpec    two callers of create_epic / create_story whose reads and   *)
(*             writes of the document may interleave                       *)
(***************************************************************************)
EXTENDS Integers, Sequences, FiniteSets, TLC

\* the persisted document, and the record of the last direct call of the
\* store: the document it found, the call, its result, its number of writes
VARIABLES disk, pre, call, ret, writes

\* the Navigator's stack of pages, and the record of the last handle_action:
\* the Action with the answers of the prompts, its result, and the number of
\* store calls it made
VARIABLES pages, action, result, calls

\* where main is: "loop" at the head of its loop, "exited" after a break,
\* "aborted" after a panic; and the branch the last turn of the loop took
VARIABLES pc, turn

\* the file of JSONFileDatabase, and the record of the last write_db and the
\* last read_db made directly on a backend
VARIABLES file, wrote, got

\* the two callers of SpanSpec: where each is in its call and what it holds;
\* and the reads and writes of the document made so far, in their order
VARIABLES span, log

storeVars == <<disk, pre, call, ret, writes>>

navVars == <<pages, action, result, calls>>

mainVars == <<pc, turn>>

backendVars == <<file, wrote, got>>

spanVars == <<span, log>>

vars == <<disk, pre, call, ret, writes, pages, action, result, calls, pc, turn,
          file, wrote, got, span, log>>

(* ------------------------------ bounds --------------------------------- *)

\* largest epic key a create_epic of the model may assign
MaxEpicId == 1

\* largest story key a create_story of the model may assign
MaxStoryId == 1

\* longest stories sequence of an epic the model lets create_story build
MaxStories == 2

\* deepest stack of pages the model lets a NavigateTo action build
MaxDepth == 2

EpicIds == 0..MaxEpicId

StoryIds == 0..MaxStoryId

Names == {"Login"}

Descriptions == {"text"}

(* ------------------------------ model.rs ------------------------------- *)

ItemStatus == {"Closed", "InProgress", "Open", "Resolved"}

\* the statuses the callers of the model choose for an update
StatusArgs == {"InProgress", "Resolved"}

ItemDetail(description, id, name, status) ==
    [description |-> description, id |-> id, name |-> name, status |-> status]

Epic(detail, stories) == [detail |-> detail, stories |-> stories]

Story(detail) == [detail |-> detail]

ItemTypeNone == [type |-> "None"]

ItemTypeEpic(id) == [type |-> "Epic", id |-> id]

ItemTypeStory(id) == [type |-> "Story", id |-> id]

DB(last_item, epics, stories) ==
    [last_item |-> last_item, epics |-> epics, stories |-> stories]

\* Option<ItemId>
None == [some |-> FALSE]

Some(id) == [some |-> TRUE, id |-> id]

(* ------------------------- HashMap<u32, _> ----------------------------- *)

EmptyMap == [k \in {} |-> 0]

\* HashMap::entry(k).or_insert(v): v is stored only when k is vacant
or_insert(m, k, v) ==
    IF k \in DOMAIN m THEN m
    ELSE [x \in DOMAIN m \cup {k} |-> IF x = k THEN v ELSE m[x]]

\* HashMap::remove(k), the map that is left
remove(m, k) == [x \in DOMAIN m \ {k} |-> m[x]]

\* Iterator::max over the keys; only used on a non-empty key set
max(keys) == CHOOSE m \in keys : \A k \in keys : k <= m

\* Iterator::position(|id| id.0 == story_id.0): 0 stands for Option::None,
\* i > 0 for the (1-based) index of the first match
position(stories, story_id) ==
    IF \E i \in 1..Len(stories) : stories[i] = story_id
    THEN CHOOSE i \in 1..Len(stories) :
            /\ stories[i] = story_id
            /\ \A j \in 1..(i - 1) : stories[j] # story_id
    ELSE 0

\* Vec::remove(index): the vector without the element at the index
vec_remove(stories, i) ==
    SubSeq(stories, 1, i - 1) \o SubSeq(stories, i + 1, Len(stories))

(* --------------------------- results ----------------------------------- *)

Ok(value) == [kind |-> "Ok", value |-> value]

OkUnit == [kind |-> "Ok"]

\* anyhow!("Epic ID: {id:?} was not found") and the Story counterpart:
\* the message names the kind of item and the id
NotFound(item, id) == [kind |-> "Err", item |-> item, id |-> id]

\* Option::unwrap on None
Panic == [kind |-> "Panic"]

\* what a call leaves behind: the persisted document, the value returned
\* and the number of write_db calls it made
Outcome(d, r, w) == [disk |-> d, ret |-> r, writes |-> w]

(* ------------------------------ db.rs ---------------------------------- *)

\* MockDB::new: the empty document
EmptyDB == DB(ItemTypeNone, EmptyMap, EmptyMap)

\* a numbering by the size of the collection instead of its largest key
next_id_len(keys) == Cardinality(keys)

\* let epic_id = match db.epics.keys().max() { None => 0, Some(last) => last + 1 }
\* (and the same over db.stories.keys() in create_story)
next_id(keys) == IF keys = {} THEN 0 ELSE max(keys) + 1

create_epic(d, name, description) ==
    LET epic_id == next_id(DOMAIN d.epics)
        epic == Epic(ItemDetail(description, epic_id, name, "Open"), << >>)
        epics == or_insert(d.epics, epic_id, epic)
        id == epics[epic_id].detail.id
        db == [d EXCEPT !.epics = epics, !.last_item = ItemTypeEpic(id)]
    IN Outcome(db, Ok(id), 1)

\* create_story that persists the inserted story before it looks for the epic
create_story_write_first(d, name, description, epic_id) ==
    LET story_id0 == next_id(DOMAIN d.stories)
        story == Story(ItemDetail(description, story_id0, name, "Open"))
        stories == or_insert(d.stories, story_id0, story)
        story_id == stories[story_id0].detail.id
        db == [d EXCEPT !.stories = stories, !.last_item = ItemTypeStory(story_id)]
    IN IF epic_id.some
       THEN IF epic_id.id \notin DOMAIN db.epics
            THEN Outcome(db, NotFound("Epic", epic_id.id), 1)
            ELSE Outcome([db EXCEPT !.epics[epic_id.id].stories =
                                        Append(@, story_id)],
                         Ok(story_id), 1)
       ELSE Outcome(db, Ok(story_id), 1)

\* create_story that leaves last_item alone when the story joins an epic
create_story_keep_last_item(d, name, description, epic_id) ==
    LET story_id0 == next_id(DOMAIN d.stories)
        story == Story(ItemDetail(description, story_id0, name, "Open"))
        stories == or_insert(d.stories, story_id0, story)
        story_id == stories[story_id0].detail.id
        db == [d EXCEPT !.stories = stories, !.last_item = ItemTypeStory(story_id)]
    IN IF epic_id.some
       THEN IF epic_id.id \notin DOMAIN db.epics
            THEN Outcome(d, NotFound("Epic", epic_id.id), 0)
            ELSE Outcome([db EXCEPT !.epics[epic_id.id].stories =
                                        Append(@, story_id),
                                    !.last_item = d.last_item],
                         Ok(story_id), 1)
       ELSE Outcome(db, Ok(story_id), 1)

create_story(d, name, description, epic_id) ==
    LET story_id0 == next_id(DOMAIN d.stories)
        story == Story(ItemDetail(description, story_id0, name, "Open"))
        stories == or_insert(d.stories, story_id0, story)
        story_id == stories[story_id0].detail.id
        db == [d EXCEPT !.stories = stories, !.last_item = ItemTypeStory(story_id)]
    IN IF epic_id.some
       THEN IF epic_id.id \notin DOMAIN db.epics
            THEN Outcome(d, NotFound("Epic", epic_id.id), 0)
            ELSE Outcome([db EXCEPT !.epics[epic_id.id].stories =
                                        Append(@, story_id)],
                         Ok(story_id), 1)
       ELSE Outcome(db, Ok(story_id), 1)

\* delete_story that removes every occurrence of the id from the epic's list
\* (retain(|id| id.0 != story_id.0) instead of remove(position(..)))
delete_story_retain(d, story_id, epic_id) ==
    LET db0 == IF d.last_item = ItemTypeStory(story_id)
               THEN [d EXCEPT !.last_item = ItemTypeNone]
               ELSE d
    IN IF epic_id.some /\ epic_id.id \notin DOMAIN db0.epics
       THEN Outcome(d, NotFound("Epic", epic_id.id), 0)
       ELSE IF epic_id.some /\ position(db0.epics[epic_id.id].stories, story_id) = 0
       THEN Outcome(d, Panic, 0)
       ELSE LET db1 == IF epic_id.some
                       THEN [db0 EXCEPT !.epics[epic_id.id].stories =
                                 SelectSeq(@, LAMBDA id : id # story_id)]
                       ELSE db0
            IN IF story_id \in DOMAIN db1.stories
               THEN Outcome([db1 EXCEPT !.stories = remove(@, story_id)], OkUnit, 1)
               ELSE Outcome(d, NotFound("Story", story_id), 0)

\* delete_story that leaves last_item alone
delete_story_keep_last_item(d, story_id, epic_id) ==
    IF epic_id.some /\ epic_id.id \notin DOMAIN d.epics
    THEN Outcome(d, NotFound("Epic", epic_id.id), 0)
    ELSE IF epic_id.some /\ position(d.epics[epic_id.id].stories, story_id) = 0
    THEN Outcome(d, Panic, 0)
    ELSE LET db1 == IF epic_id.some
                    THEN [d EXCEPT !.epics[epic_id.id].stories =
                              vec_remove(@, position(@, story_id))]
                    ELSE d
         IN IF story_id \in DOMAIN db1.stories
            THEN Outcome([db1 EXCEPT !.stories = remove(@, story_id)], OkUnit, 1)
            ELSE Outcome(d, NotFound("Story", story_id), 0)

\* delete_story that removes the id from the epic's list only when it is there
\* (if let Some(i) = position(..) instead of unwrap)
delete_story_skip_absent(d, story_id, epic_id) ==
    LET db0 == IF d.last_item = ItemTypeStory(story_id)
               THEN [d EXCEPT !.last_item = ItemTypeNone]
               ELSE d
    IN IF epic_id.some /\ epic_id.id \notin DOMAIN db0.epics
       THEN Outcome(d, NotFound("Epic", epic_id.id), 0)
       ELSE LET db1 == IF /\ epic_id.some
                          /\ position(db0.epics[epic_id.id].stories, story_id) # 0
                       THEN [db0 EXCEPT !.epics[epic_id.id].stories =
                                 vec_remove(@, position(@, story_id))]
                       ELSE db0
            IN IF story_id \in DOMAIN db1.stories
               THEN Outcome([db1 EXCEPT !.stories = remove(@, story_id)], OkUnit, 1)
               ELSE Outcome(d, NotFound("Story", story_id), 0)

\* delete_story without the contains_key check: entry(id).and_modify(..) does
\* nothing for a vacant entry and the story is removed all the same
delete_story_no_epic_check(d, story_id, epic_id) ==
    LET db0 == IF d.last_item = ItemTypeStory(story_id)
               THEN [d EXCEPT !.last_item = ItemTypeNone]
               ELSE d
        known == epic_id.some /\ epic_id.id \in DOMAIN db0.epics
    IN IF known /\ position(db0.epics[epic_id.id].stories, story_id) = 0
       THEN Outcome(d, Panic, 0)
       ELSE LET db1 == IF known
                       THEN [db0 EXCEPT !.epics[epic_id.id].stories =
                                 vec_remove(@, position(@, story_id))]
                       ELSE db0
            IN IF story_id \in DOMAIN db1.stories
               THEN Outcome([db1 EXCEPT !.stories = remove(@, story_id)], OkUnit, 1)
               ELSE Outcome(d, NotFound("Story", story_id), 0)

delete_story(d, story_id, epic_id) ==
    LET db0 == IF d.last_item = ItemTypeStory(story_id)
               THEN [d EXCEPT !.last_item = ItemTypeNone]
               ELSE d
    IN IF epic_id.some /\ epic_id.id \notin DOMAIN db0.epics
       THEN Outcome(d, NotFound("Epic", epic_id.id), 0)
       ELSE IF epic_id.some /\ position(db0.epics[epic_id.id].stories, story_id) = 0
       THEN Outcome(d, Panic, 0)
       ELSE LET db1 == IF epic_id.some
                       THEN [db0 EXCEPT !.epics[epic_id.id].stories =
                                 vec_remove(@, position(@, story_id))]
                       ELSE db0
            IN IF story_id \in DOMAIN db1.stories
               THEN Outcome([db1 EXCEPT !.stories = remove(@, story_id)], OkUnit, 1)
               ELSE Outcome(d, NotFound("Story", story_id), 0)

\* the loop of delete_epic over the stories the epic listed when it was read:
\* every inner delete_story reads and writes the persisted document, and the
\* first error leaves the loop (the ? operator)
RECURSIVE cascade(_, _, _, _)
cascade(d, stories, i, w) ==
    IF i > Len(stories) THEN Outcome(d, OkUnit, w)
    ELSE LET r == delete_story(d, stories[i], None)
         IN IF r.ret.kind = "Ok"
            THEN cascade(r.disk, stories, i + 1, w + r.writes)
            ELSE Outcome(r.disk, r.ret, w + r.writes)

delete_epic(d, id) ==
    LET db0 == IF d.last_item = ItemTypeEpic(id)
               THEN [d EXCEPT !.last_item = ItemTypeNone]
               ELSE d
    IN IF id \in DOMAIN db0.epics
       THEN LET c == cascade(d, db0.epics[id].stories, 1, 0)
            IN IF c.ret.kind # "Ok" THEN c
               ELSE LET db == c.disk
                    IN IF id \in DOMAIN db.epics
                       THEN Outcome([db EXCEPT !.epics = remove(@, id)],
                                    OkUnit, c.writes + 1)
                       ELSE Outcome(c.disk, NotFound("Epic", id), c.writes)
       ELSE Outcome(d, NotFound("Epic", id), 0)

\* an update that also makes the epic the last item
update_epic_status_touch(d, epic_id, status) ==
    IF epic_id \in DOMAIN d.epics
    THEN Outcome([d EXCEPT !.epics[epic_id].detail.status = status,
                           !.last_item = ItemTypeEpic(epic_id)], OkUnit, 1)
    ELSE Outcome(d, NotFound("Epic", epic_id), 0)

update_epic_status(d, epic_id, status) ==
    IF epic_id \in DOMAIN d.epics
    THEN Outcome([d EXCEPT !.epics[epic_id].detail.status = status], OkUnit, 1)
    ELSE Outcome(d, NotFound("Epic", epic_id), 0)

\* an update that also makes the story the last item
update_story_status_touch(d, story_id, status) ==
    IF story_id \in DOMAIN d.stories
    THEN Outcome([d EXCEPT !.stories[story_id].detail.status = status,
                           !.last_item = ItemTypeStory(story_id)], OkUnit, 1)
    ELSE Outcome(d, NotFound("Story", story_id), 0)

update_story_status(d, story_id, status) ==
    IF story_id \in DOMAIN d.stories
    THEN Outcome([d EXCEPT !.stories[story_id].detail.status = status], OkUnit, 1)
    ELSE Outcome(d, NotFound("Story", story_id), 0)

(* ------------------- serde: model.rs as JSON --------------------------- *)

\* impl Display for ItemStatus: the text a status is shown as
fmt(status) ==
    CASE status = "Closed" -> "Closed"
      [] status = "InProgress" -> "IN PROGRESS"
      [] status = "Open" -> "OPEN"
      [] status = "Resolved" -> "RESOLVED"

\* the u32 keys the model's documents may hold
Keys == EpicIds \cup StoryIds

\* a HashMap<u32, _> is written as a JSON object, whose keys are strings: the
\* key is written in decimal
key_to_string(k) == ToString(k)

\* and read back by parsing the decimal; [some |-> FALSE] when the string is
\* no u32
key_from_str(str) ==
    IF \E k \in Keys : key_to_string(k) = str
    THEN Some(CHOOSE k \in Keys : key_to_string(k) = str)
    ELSE None

\* a status written by its Display text instead of its variant name
serialize_status_display(status) == fmt(status)

\* #[derive(Serialize)] on ItemStatus: a unit variant is written as its name
serialize_status(status) == status

\* #[derive(Deserialize)] on ItemStatus: only the names of the variants parse
deserialize_status(str) == IF str \in ItemStatus THEN Ok(str) ELSE [kind |-> "Err"]

\* ItemDetail as JSON; ItemId(pub u32) is written as the bare number
serialize_detail(detail) ==
    [description |-> detail.description, id |-> detail.id, name |-> detail.name,
     status |-> serialize_status(detail.status)]

\* HashMap<u32, Epic> and HashMap<u32, Story> as JSON objects
serialize_epics(epics) ==
    [str \in {key_to_string(k) : k \in DOMAIN epics} |->
        LET epic == epics[key_from_str(str).id]
        IN [detail |-> serialize_detail(epic.detail), stories |-> epic.stories]]

serialize_stories(stories) ==
    [str \in {key_to_string(k) : k \in DOMAIN stories} |->
        [detail |-> serialize_detail(stories[key_from_str(str).id].detail)]]

\* #[serde(tag = "type")] on ItemType: {"type": "Epic", "id": n},
\* {"type": "Story", "id": n} or {"type": "None"}
serialize_item_type(last_item) ==
    IF last_item.type = "None" THEN [type |-> "None"]
    ELSE [type |-> last_item.type, id |-> last_item.id]

\* serde_json::to_writer_pretty(&mut writer, database): the JSON text of DB
to_writer_pretty(database) ==
    [last_item |-> serialize_item_type(database.last_item),
     epics |-> serialize_epics(database.epics),
     stories |-> serialize_stories(database.stories)]

\* the JSON text parses: every key is a u32 and every status a variant name
Parses(json) ==
    /\ \A str \in DOMAIN json.epics :
           /\ key_from_str(str).some
           /\ deserialize_status(json.epics[str].detail.status).kind = "Ok"
    /\ \A str \in DOMAIN json.stories :
           /\ key_from_str(str).some
           /\ deserialize_status(json.stories[str].detail.status).kind = "Ok"

deserialize_detail(json) ==
    ItemDetail(json.description, json.id, json.name,
               deserialize_status(json.status).value)

\* serde_json::from_reader(reader): the DB a JSON text stands for, or an error
from_reader(json) ==
    IF ~Parses(json) THEN [kind |-> "Err"]
    ELSE Ok(DB(IF json.last_item.type = "None" THEN ItemTypeNone
               ELSE [type |-> json.last_item.type, id |-> json.last_item.id],
               [k \in {key_from_str(str).id : str \in DOMAIN json.epics} |->
                   Epic(deserialize_detail(json.epics[key_to_string(k)].detail),
                        json.epics[key_to_string(k)].stories)],
               [k \in {key_from_str(str).id : str \in DOMAIN json.stories} |->
                   Story(deserialize_detail(json.stories[key_to_string(k)].detail))]))

(* --------------------------- the backends ------------------------------ *)

\* what a backend call leaves: the content of the backend and the value returned
Stored(content, r) == [content |-> content, ret |-> r]

\* JSONFileDatabase::read_db: opens the file for reading and parses it
json_read_db(content) == Stored(content, from_reader(content))

\* JSONFileDatabase::write_db: opens the file with truncate(true), so that
\* nothing of the old text is left, and writes the JSON text of the document
json_write_db(content, database) == Stored(to_writer_pretty(database), OkUnit)

\* MockDB::read_db: a clone of last_written_db
mock_read_db(content) == Stored(content, Ok(content))

\* a write that adds the entries of the document to the ones already stored
mock_write_db_merge(content, database) ==
    Stored(DB(database.last_item,
              [k \in DOMAIN content.epics \cup DOMAIN database.epics |->
                  IF k \in DOMAIN content.epics THEN content.epics[k]
                  ELSE database.epics[k]],
              [k \in DOMAIN content.stories \cup DOMAIN database.stories |->
                  IF k \in DOMAIN content.stories THEN content.stories[k]
                  ELSE database.stories[k]]),
           OkUnit)

\* MockDB::write_db: last_written_db becomes a clone of the document
mock_write_db(content, database) == Stored(database, OkUnit)

(* --------------------------- navigators.rs ----------------------------- *)

\* the pages (ui::HomePage, ui::EpicDetail, ui::StoryDetail) by their fields
HomePage == [page |-> "HomePage"]

EpicDetail(epic_id) == [page |-> "EpicDetail", epic_id |-> epic_id]

StoryDetail(epic_id, story_id) ==
    [page |-> "StoryDetail", epic_id |-> epic_id, story_id |-> story_id]

\* Navigator::new: the stack holds the home page
new == <<HomePage>>

\* Navigator::get_current_page: pages.last(), None for an empty stack
get_current_page(p) == IF p = << >> THEN None ELSE [some |-> TRUE, page |-> p[Len(p)]]

\* if !self.pages.is_empty() { self.pages.pop(); }
pop(p) == IF p # << >> THEN SubSeq(p, 1, Len(p) - 1) ELSE p

\* Option<ItemStatus>::Some, the answer of the update_status prompt
SomeStatus(status) == [some |-> TRUE, status |-> status]

\* .with_context(|| anyhow!(..)): the error of the store under a message
Context(message, error) == [kind |-> "Err", context |-> message, source |-> error]

\* what handle_action leaves: the stack, the persisted document, its result
\* and the number of store calls it made
Handled(p, d, r, n) == [pages |-> p, disk |-> d, result |-> r, calls |-> n]

\* the ? operator on the result of a store call r: an error returns from
\* handle_action at once, under the message, with the stack as it is; a panic
\* unwinds; otherwise handle_action goes on to the stack p it builds
question(r, message, before, p) ==
    IF r.ret.kind = "Ok" THEN Handled(p, r.disk, OkUnit, 1)
    ELSE IF r.ret.kind = "Panic" THEN Handled(before, r.disk, Panic, 1)
    ELSE Handled(before, r.disk, Context(message, r.ret), 1)

\* Action::CreateEpic
handle_create_epic(p, d, a) ==
    question(create_epic(d, a.name, a.description), "Failed to create Epic", p, p)

\* DeleteEpic that pops the page whatever the store call returned
handle_delete_epic_always_pop(p, d, a) ==
    IF a.confirm
    THEN [question(delete_epic(d, a.epic_id), "Failed to delete epic", p, pop(p))
            EXCEPT !.pages = pop(p)]
    ELSE Handled(pop(p), d, OkUnit, 0)

\* DeleteEpic that leaves the page when the user does not confirm
handle_delete_epic_pop_in_if(p, d, a) ==
    IF a.confirm
    THEN question(delete_epic(d, a.epic_id), "Failed to delete epic", p, pop(p))
    ELSE Handled(p, d, OkUnit, 0)

\* Action::DeleteEpic { epic_id }
handle_delete_epic(p, d, a) ==
    IF a.confirm
    THEN question(delete_epic(d, a.epic_id), "Failed to delete epic", p, pop(p))
    ELSE Handled(pop(p), d, OkUnit, 0)

\* Exit that leaves the current page only
handle_exit_pop(p, d, a) == Handled(pop(p), d, OkUnit, 0)

\* Action::Exit: self.pages.clear()
handle_exit(p, d, a) == Handled(<< >>, d, OkUnit, 0)

\* CreateStory that opens the page of the story it created
handle_create_story_navigates(p, d, a) ==
    LET r == create_story(d, a.name, a.description, Some(a.epic_id))
    IN question(r, "Failed to create story", p,
                IF r.ret.kind = "Ok"
                THEN Append(p, StoryDetail(a.epic_id, r.ret.value))
                ELSE p)

\* Action::CreateStory { epic_id }
handle_create_story(p, d, a) ==
    question(create_story(d, a.name, a.description, Some(a.epic_id)),
             "Failed to create story", p, p)

\* Action::DeleteStory { epic_id, story_id }
handle_delete_story(p, d, a) ==
    IF a.confirm
    THEN question(delete_story(d, a.story_id, Some(a.epic_id)),
                  "Failed to delete story", p, pop(p))
    ELSE Handled(pop(p), d, OkUnit, 0)

\* NavigateToEpicDetail that marks the epic as the last item and persists it
handle_navigate_to_epic_detail_touch(p, d, a) ==
    Handled(Append(p, EpicDetail(a.epic_id)),
            [d EXCEPT !.last_item = ItemTypeEpic(a.epic_id)], OkUnit, 1)

\* NavigateToEpicDetail that opens the page of an epic of the document only
handle_navigate_to_epic_detail_checked(p, d, a) ==
    IF a.epic_id \in DOMAIN d.epics
    THEN Handled(Append(p, EpicDetail(a.epic_id)), d, OkUnit, 1)
    ELSE Handled(p, d, NotFound("Epic", a.epic_id), 1)

\* Action::NavigateToEpicDetail { epic_id }
handle_navigate_to_epic_detail(p, d, a) ==
    Handled(Append(p, EpicDetail(a.epic_id)), d, OkUnit, 0)

\* NavigateToPreviousPage that goes back past every page
handle_navigate_to_previous_page_clear(p, d, a) == Handled(<< >>, d, OkUnit, 0)

\* Action::NavigateToPreviousPage
handle_navigate_to_previous_page(p, d, a) == Handled(pop(p), d, OkUnit, 0)

\* NavigateToStoryDetail that puts the story page in the place of the current page
handle_navigate_to_story_detail_replace(p, d, a) ==
    Handled(Append(pop(p), StoryDetail(a.epic_id, a.story_id)), d, OkUnit, 0)

\* Action::NavigateToStoryDetail { epic_id, story_id }
handle_navigate_to_story_detail(p, d, a) ==
    Handled(Append(p, StoryDetail(a.epic_id, a.story_id)), d, OkUnit, 0)

\* Action::UpdateEpicStatus { epic_id }
handle_update_epic_status(p, d, a) ==
    IF a.status.some
    THEN question(update_epic_status(d, a.epic_id, a.status.status),
                  "Failed to update epic status", p, p)
    ELSE Handled(p, d, OkUnit, 0)

\* Action::UpdateStoryStatus { story_id }
handle_update_story_status(p, d, a) ==
    IF a.status.some
    THEN question(update_story_status(d, a.story_id, a.status.status),
                  "Failed to update story status", p, p)
    ELSE Handled(p, d, OkUnit, 0)

\* Navigator::handle_action: the match over the Action
handle_action(p, d, a) ==
    CASE a.type = "CreateEpic" -> handle_create_epic(p, d, a)
      [] a.type = "DeleteEpic" -> handle_delete_epic(p, d, a)
      [] a.type = "Exit" -> handle_exit(p, d, a)
      [] a.type = "CreateStory" -> handle_create_story(p, d, a)
      [] a.type = "DeleteStory" -> handle_delete_story(p, d, a)
      [] a.type = "NavigateToEpicDetail" -> handle_navigate_to_epic_detail(p, d, a)
      [] a.type = "NavigateToPreviousPage" -> handle_navigate_to_previous_page(p, d, a)
      [] a.type = "NavigateToStoryDetail" -> handle_navigate_to_story_detail(p, d, a)
      [] a.type = "UpdateEpicStatus" -> handle_update_epic_status(p, d, a)
      [] a.type = "UpdateStoryStatus" -> handle_update_story_status(p, d, a)

(* ------------------------- the Actions ---------------------------------- *)

\* the answers the update_status prompt gives in the model: no status, or the
\* status the tests of handle_action choose
StatusAnswers == {None, SomeStatus("InProgress")}

\* model::Action, each with the answers its prompts give while it is handled
CreateEpicActions ==
    {[type |-> "CreateEpic", name |-> n, description |-> t] :
        n \in Names, t \in Descriptions}

CreateStoryActions ==
    {[type |-> "CreateStory", epic_id |-> e, name |-> n, description |-> t] :
        e \in EpicIds, n \in Names, t \in Descriptions}

DeleteEpicActions ==
    {[type |-> "DeleteEpic", epic_id |-> e, confirm |-> c] :
        e \in EpicIds, c \in BOOLEAN}

DeleteStoryActions ==
    {[type |-> "DeleteStory", epic_id |-> e, story_id |-> s, confirm |-> c] :
        e \in EpicIds, s \in StoryIds, c \in BOOLEAN}

UpdateEpicStatusActions ==
    {[type |-> "UpdateEpicStatus", epic_id |-> e, status |-> st] :
        e \in EpicIds, st \in StatusAnswers}

UpdateStoryStatusActions ==
    {[type |-> "UpdateStoryStatus", story_id |-> s, status |-> st] :
        s \in StoryIds, st \in StatusAnswers}

NavigateToEpicDetailActions ==
    {[type |-> "NavigateToEpicDetail", epic_id |-> e] : e \in EpicIds}

NavigateToStoryDetailActions ==
    {[type |-> "NavigateToStoryDetail", epic_id |-> e, story_id |-> s] :
        e \in EpicIds, s \in StoryIds}

NavigateToPreviousPageActions == {[type |-> "NavigateToPreviousPage"]}

ExitActions == {[type |-> "Exit"]}

Actions ==
    CreateEpicActions \cup CreateStoryActions \cup DeleteEpicActions
    \cup DeleteStoryActions \cup UpdateEpicStatusActions
    \cup UpdateStoryStatusActions \cup NavigateToEpicDetailActions
    \cup NavigateToStoryDetailActions \cup NavigateToPreviousPageActions
    \cup ExitActions

\* the Actions the bounds of the model admit in the state
Admitted(a) ==
    CASE a.type = "CreateEpic" -> next_id(DOMAIN disk.epics) <= MaxEpicId
      [] a.type = "CreateStory" ->
            /\ next_id(DOMAIN disk.stories) <= MaxStoryId
            /\ a.epic_id \in DOMAIN disk.epics
                  => Len(disk.epics[a.epic_id].stories) < MaxStories
      [] a.type \in {"NavigateToEpicDetail", "NavigateToStoryDetail"} ->
            Len(pages) < MaxDepth
      [] OTHER -> TRUE

(* ------------------------------ the calls ------------------------------ *)

\* what a call of the store leaves: the document it found, the document it
\* persisted, the value it returned and the number of writes it made
Leaves(r) ==
    /\ pre' = disk
    /\ disk' = r.disk
    /\ ret' = r.ret
    /\ writes' = r.writes
    /\ UNCHANGED <<navVars, mainVars, backendVars, spanVars>>

\* Option<ItemId> arguments a caller may pass
EpicArgs == {None} \cup {Some(e) : e \in EpicIds}

\* the two callers of SpanSpec, and a caller that is in no call
Callers == {1, 2}

Idle == [pc |-> "idle"]

Init ==
    /\ disk = EmptyDB
    /\ pre = EmptyDB
    /\ call = [op |-> "new"]
    /\ ret = OkUnit
    /\ writes = 0
    /\ pages = new
    /\ action = [type |-> "new"]
    /\ result = OkUnit
    /\ calls = 0
    /\ pc = "loop"
    /\ turn = "start"
    /\ file = to_writer_pretty(EmptyDB)
    /\ wrote = [json |-> None, mock |-> None]
    /\ got = [backend |-> "new"]
    /\ span = [p \in Callers |-> Idle]
    /\ log = << >>

CreateEpic ==
    \E name \in Names, description \in Descriptions :
        /\ next_id(DOMAIN disk.epics) <= MaxEpicId
        /\ call' = [op |-> "create_epic", name |-> name, description |-> description]
        /\ Leaves(create_epic(disk, name, description))

CreateStory ==
    \E name \in Names, description \in Descriptions, epic_id \in EpicArgs :
        /\ next_id(DOMAIN disk.stories) <= MaxStoryId
        /\ (epic_id.some /\ epic_id.id \in DOMAIN disk.epics)
              => Len(disk.epics[epic_id.id].stories) < MaxStories
        /\ call' = [op |-> "create_story", name |-> name, description |-> description,
                    epic_id |-> epic_id]
        /\ Leaves(create_story(disk, name, description, epic_id))

DeleteEpic ==
    \E id \in EpicIds :
        /\ call' = [op |-> "delete_epic", id |-> id]
        /\ Leaves(delete_epic(disk, id))

DeleteStory ==
    \E story_id \in StoryIds, epic_id \in EpicArgs :
        /\ call' = [op |-> "delete_story", story_id |-> story_id, epic_id |-> epic_id]
        /\ Leaves(delete_story(disk, story_id, epic_id))

UpdateEpicStatus ==
    \E epic_id \in EpicIds, status \in StatusArgs :
        /\ call' = [op |-> "update_epic_status", epic_id |-> epic_id, status |-> status]
        /\ Leaves(update_epic_status(disk, epic_id, status))

UpdateStoryStatus ==
    \E story_id \in StoryIds, status \in StatusArgs :
        /\ call' = [op |-> "update_story_status", story_id |-> story_id, status |-> status]
        /\ Leaves(update_story_status(disk, story_id, status))

Next ==
    \/ CreateEpic
    \/ CreateStory
    \/ DeleteEpic
    \/ DeleteStory
    \/ UpdateEpicStatus
    \/ UpdateStoryStatus

Spec == Init /\ [][Next]_vars

(* ------------------ handle_action called directly ----------------------- *)

\* a call of handle_action: the stack and the document it leaves, recorded
Dispatch(a) ==
    LET h == handle_action(pages, disk, a)
    IN /\ Admitted(a)
       /\ action' = a
       /\ pages' = h.pages
       /\ disk' = h.disk
       /\ result' = h.result
       /\ calls' = h.calls
       /\ UNCHANGED <<pre, call, ret, writes, mainVars, backendVars, spanVars>>

OnCreateEpic == \E a \in CreateEpicActions : Dispatch(a) /\ a.type = "CreateEpic"

OnCreateStory == \E a \in CreateStoryActions : Dispatch(a) /\ a.type = "CreateStory"

OnDeleteEpic == \E a \in DeleteEpicActions : Dispatch(a) /\ a.type = "DeleteEpic"

OnDeleteStory == \E a \in DeleteStoryActions : Dispatch(a) /\ a.type = "DeleteStory"

OnUpdateEpicStatus ==
    \E a \in UpdateEpicStatusActions : Dispatch(a) /\ a.type = "UpdateEpicStatus"

OnUpdateStoryStatus ==
    \E a \in UpdateStoryStatusActions : Dispatch(a) /\ a.type = "UpdateStoryStatus"

OnNavigateToEpicDetail ==
    \E a \in NavigateToEpicDetailActions :
        Dispatch(a) /\ a.type = "NavigateToEpicDetail"

OnNavigateToStoryDetail ==
    \E a \in NavigateToStoryDetailActions :
        Dispatch(a) /\ a.type = "NavigateToStoryDetail"

OnNavigateToPreviousPage ==
    \E a \in NavigateToPreviousPageActions :
        Dispatch(a) /\ a.type = "NavigateToPreviousPage"

OnExit == \E a \in ExitActions : Dispatch(a) /\ a.type = "Exit"

NavNext ==
    \/ OnCreateEpic
    \/ OnCreateStory
    \/ OnDeleteEpic
    \/ OnDeleteStory
    \/ OnUpdateEpicStatus
    \/ OnUpdateStoryStatus
    \/ OnNavigateToEpicDetail
    \/ OnNavigateToStoryDetail
    \/ OnNavigateToPreviousPage
    \/ OnExit

NavSpec == Init /\ [][NavNext]_vars

(* ------------------------------ main.rs -------------------------------- *)

\* what a turn of the loop leaves: where main goes, the branch it took, and
\* what handle_action left if it was called (else the stack and document as
\* they were)
Turn(where, branch, h) == [pc |-> where, turn |-> branch, handled |-> h]

\* a loop that breaks when handle_action returns an error
main_break_on_error(p, d, clear_ok, draw_ok, input) ==
    LET same == Handled(p, d, OkUnit, 0)
    IN IF ~clear_ok THEN Turn("exited", "clear failed", same)
       ELSE IF ~get_current_page(p).some THEN Turn("exited", "no page", same)
       ELSE IF ~draw_ok THEN Turn("loop", "render failed", same)
       ELSE IF input.kind = "Err" THEN Turn("loop", "input failed", same)
       ELSE IF ~input.value.some THEN Turn("loop", "no action", same)
       ELSE LET h == handle_action(p, d, input.value.action)
            IN IF h.result.kind = "Ok" THEN Turn("loop", "handled", h)
               ELSE IF h.result.kind = "Panic" THEN Turn("aborted", "panicked", h)
               ELSE Turn("exited", "handle failed", h)

\* one turn of the loop of main. clear_ok: clearscreen::clear() returned Ok;
\* draw_ok: page.draw_page() returned Ok; input: what page.handle_input
\* returned, an error, Ok(None) or Ok(Some(action))
main(p, d, clear_ok, draw_ok, input) ==
    LET same == Handled(p, d, OkUnit, 0)
    IN IF ~clear_ok THEN Turn("exited", "clear failed", same)
       ELSE IF ~get_current_page(p).some THEN Turn("exited", "no page", same)
       ELSE IF ~draw_ok THEN Turn("loop", "render failed", same)
       ELSE IF input.kind = "Err" THEN Turn("loop", "input failed", same)
       ELSE IF ~input.value.some THEN Turn("loop", "no action", same)
       ELSE LET h == handle_action(p, d, input.value.action)
            IN IF h.result.kind = "Ok" THEN Turn("loop", "handled", h)
               ELSE IF h.result.kind = "Panic" THEN Turn("aborted", "panicked", h)
               ELSE Turn("loop", "handle failed", h)

\* what page.handle_input may return
InputError == [kind |-> "Err"]

NoAction == [kind |-> "Ok", value |-> None]

SomeAction(a) == [kind |-> "Ok", value |-> [some |-> TRUE, action |-> a]]

\* a turn of the loop, recorded
Turns(t) ==
    /\ pc' = t.pc
    /\ turn' = t.turn
    /\ pages' = t.handled.pages
    /\ disk' = t.handled.disk
    /\ UNCHANGED <<pre, call, ret, writes, backendVars, spanVars>>

MainClearFails ==
    /\ pc = "loop"
    /\ Turns(main(pages, disk, FALSE, TRUE, NoAction))
    /\ UNCHANGED <<action, result, calls>>

MainNoPage ==
    /\ pc = "loop"
    /\ pages = << >>
    /\ Turns(main(pages, disk, TRUE, TRUE, NoAction))
    /\ UNCHANGED <<action, result, calls>>

MainRenderFails ==
    /\ pc = "loop"
    /\ pages # << >>
    /\ Turns(main(pages, disk, TRUE, FALSE, NoAction))
    /\ UNCHANGED <<action, result, calls>>

MainInputFails ==
    /\ pc = "loop"
    /\ pages # << >>
    /\ Turns(main(pages, disk, TRUE, TRUE, InputError))
    /\ UNCHANGED <<action, result, calls>>

MainNoAction ==
    /\ pc = "loop"
    /\ pages # << >>
    /\ Turns(main(pages, disk, TRUE, TRUE, NoAction))
    /\ UNCHANGED <<action, result, calls>>

MainAction ==
    \E a \in Actions :
        LET t == main(pages, disk, TRUE, TRUE, SomeAction(a))
        IN /\ pc = "loop"
           /\ pages # << >>
           /\ Admitted(a)
           /\ Turns(t)
           /\ action' = a
           /\ result' = t.handled.result
           /\ calls' = t.handled.calls

MainNext ==
    \/ MainClearFails
    \/ MainNoPage
    \/ MainRenderFails
    \/ MainInputFails
    \/ MainNoAction
    \/ MainAction

MainSpec == Init /\ [][MainNext]_vars

(* -------------------- the backends called directly -------------------- *)

\* the documents the callers of the model write: with and without an epic
\* that lists a story, with and without stories (the last of which no epic
\* lists), and last_item in each of its three variants
BackendLastItems == {ItemTypeNone, ItemTypeEpic(0), ItemTypeStory(MaxStoryId)}

BackendEpics ==
    {EmptyMap,
     [e \in {0} |-> Epic(ItemDetail("text", e, "Login", "InProgress"), <<0>>)]}

BackendStories ==
    {EmptyMap,
     [s \in StoryIds |->
         Story(ItemDetail("text", s, "Login", IF s = 0 THEN "Open" ELSE "Resolved"))]}

Documents ==
    {DB(l, e, s) : l \in BackendLastItems, e \in BackendEpics, s \in BackendStories}

\* Option<DB>: the document of the last write_db
Written(database) == [some |-> TRUE, database |-> database]

\* a read_db, recorded: the content it found and the content it left, the
\* value it returned, and the document of the last write_db before it
Reads(backend, found, r, since) ==
    got' = [backend |-> backend, found |-> found, left |-> r.content,
            ret |-> r.ret, since |-> since]

JsonWrite ==
    \E database \in Documents :
        /\ file' = json_write_db(file, database).content
        /\ wrote' = [wrote EXCEPT !.json = Written(database)]
        /\ UNCHANGED <<storeVars, navVars, mainVars, got, spanVars>>

JsonRead ==
    /\ Reads("json", file, json_read_db(file), wrote.json)
    /\ file' = json_read_db(file).content
    /\ UNCHANGED <<storeVars, navVars, mainVars, wrote, spanVars>>

MockWrite ==
    \E database \in Documents :
        /\ disk' = mock_write_db(disk, database).content
        /\ wrote' = [wrote EXCEPT !.mock = Written(database)]
        /\ UNCHANGED <<pre, call, ret, writes, navVars, mainVars, file, got, spanVars>>

MockRead ==
    /\ Reads("mock", disk, mock_read_db(disk), wrote.mock)
    /\ disk' = mock_read_db(disk).content
    /\ UNCHANGED <<pre, call, ret, writes, navVars, mainVars, file, wrote, spanVars>>

BackendNext ==
    \/ JsonWrite
    \/ JsonRead
    \/ MockWrite
    \/ MockRead

BackendSpec == Init /\ [][BackendNext]_vars

(* ------------- two callers whose reads and writes interleave ----------- *)

\* the names the two callers give their items
CallerName(p) == IF p = 1 THEN "Login" ELSE "Logout"

\* let mut db = self.database.read_db()?: the first line of create_epic and
\* of create_story, as a step of its own
Begins(p, op, epic_id) ==
    /\ span[p] = Idle
    /\ span' = [span EXCEPT ![p] =
                   [pc |-> "read", op |-> op, name |-> CallerName(p),
                    epic_id |-> epic_id, db |-> mock_read_db(disk).ret.value]]
    /\ log' = Append(log, [caller |-> p, step |-> "read"])
    /\ UNCHANGED <<storeVars, navVars, mainVars, backendVars>>

SpanCreateEpicReads ==
    \E p \in Callers :
        /\ next_id(DOMAIN disk.epics) <= MaxEpicId
        /\ Begins(p, "create_epic", None)

SpanCreateStoryReads ==
    \E p \in Callers, epic_id \in EpicArgs :
        /\ next_id(DOMAIN disk.stories) <= MaxStoryId
        /\ (epic_id.some /\ epic_id.id \in DOMAIN disk.epics)
              => Len(disk.epics[epic_id.id].stories) < MaxStories
        /\ Begins(p, "create_story", epic_id)

\* the rest of the call, on the copy it read: the id, the insert and, unless
\* the call fails, self.database.write_db(&db)
SpanWrites ==
    \E p \in Callers :
        LET c == span[p]
            r == IF c.op = "create_epic" THEN create_epic(c.db, c.name, "text")
                 ELSE create_story(c.db, c.name, "text", c.epic_id)
        IN /\ c.pc = "read"
           /\ span' = [span EXCEPT ![p] = [pc |-> "done", op |-> c.op, name |-> c.name,
                                           epic_id |-> c.epic_id, db |-> c.db,
                                           ret |-> r.ret]]
           /\ disk' = IF r.writes > 0 THEN mock_write_db(disk, r.disk).content ELSE disk
           /\ log' = Append(log, [caller |-> p,
                                  step |-> IF r.writes > 0 THEN "write" ELSE "fail"])
           /\ UNCHANGED <<pre, call, ret, writes, navVars, mainVars, backendVars>>

\* both calls have returned and the callers are free for the next two
SpanReturns ==
    /\ \A p \in Callers : span[p].pc = "done"
    /\ span' = [p \in Callers |-> Idle]
    /\ log' = << >>
    /\ UNCHANGED <<storeVars, navVars, mainVars, backendVars>>

SpanNext ==
    \/ SpanCreateEpicReads
    \/ SpanCreateStoryReads
    \/ SpanWrites
    \/ SpanReturns

SpanSpec == Init /\ [][SpanNext]_vars

TypeOK ==
    /\ ret.kind \in {"Ok", "Err", "Panic"}
    /\ writes \in Nat
    /\ \A e \in DOMAIN disk.epics : disk.epics[e].detail.status \in ItemStatus
    /\ \A s \in DOMAIN disk.stories : disk.stories[s].detail.status \in ItemStatus

(* --------------------------- vocabulary -------------------------------- *)

\* the story ids an epic lists
Listed(d, e) == {d.epics[e].stories[i] : i \in 1..Len(d.epics[e].stories)}

\* how often an epic lists a story id
Occurrences(stories, s) == Cardinality({i \in 1..Len(stories) : stories[i] = s})

\* no epic of the document lists a story id that is no key of stories
NoDangling(d) == \A e \in DOMAIN d.epics : Listed(d, e) \subseteq DOMAIN d.stories

\* n is 0 for an empty key set and the successor of the largest key otherwise
IsNextId(n, keys) ==
    IF keys = {} THEN n = 0
    ELSE /\ (n - 1) \in keys
         /\ \A k \in keys : k < n

Succeeded(op) == call.op = op /\ ret.kind = "Ok"

(* ------------------------------ C1 ------------------------------------- *)

\* C1: between top-level store operations every id listed in any epic's
\* stories sequence is a key of the stories collection.
C1_NoDanglingReference == NoDangling(disk)

(* ------------------------------ C2 ------------------------------------- *)

C3_StoryListedOnce ==
    (Succeeded("create_story") /\ call.epic_id.some) =>
        LET stories == disk.epics[call.epic_id.id].stories
        IN /\ Len(stories) > 0
           /\ stories[Len(stories)] = ret.value
           /\ Occurrences(stories, ret.value) = 1
           /\ ret.value \in DOMAIN disk.stories

(* ------------------------------ C4 ------------------------------------- *)

\* C4: delete_epic(E) on an existing epic E whose listed stories all exist
\* succeeds; afterwards E is no epic, no story E listed is a story, every
\* other epic and every story E did not list is unchanged, and no epic lists
\* a missing story.
C4_CascadeDelete ==
    (/\ call.op = "delete_epic"
     /\ call.id \in DOMAIN pre.epics
     /\ Listed(pre, call.id) \subseteq DOMAIN pre.stories) =>
        /\ ret.kind = "Ok"
        /\ DOMAIN disk.epics = DOMAIN pre.epics \ {call.id}
        /\ DOMAIN disk.stories = DOMAIN pre.stories \ Listed(pre, call.id)
        /\ \A e \in DOMAIN disk.epics : disk.epics[e] = pre.epics[e]
        /\ \A s \in DOMAIN disk.stories : disk.stories[s] = pre.stories[s]
        /\ NoDangling(disk)

(* ------------------------------ C5 ------------------------------------- *)

\* C5: a store operation that returns an error leaves the persisted document
\* as it was before the call (a failing delete_epic has removed no story and
\* has not changed last_item).
C5_ErrorLeavesDocument == ret.kind = "Err" => disk = pre

(* ------------------------------ C6 ------------------------------------- *)

\* C6: create_story(_, _, Some(u)), delete_epic(u) and update_epic_status(u, _)
\* with u no key of epics, and update_story_status(u, _) with u no key of
\* stories, return NotFound naming the kind and u, and leave the persisted
\* document unchanged (no story inserted, last_item as before).
C6_NotFound ==
    /\ (/\ call.op = "create_story"
        /\ call.epic_id.some
        /\ call.epic_id.id \notin DOMAIN pre.epics) =>
           /\ ret = NotFound("Epic", call.epic_id.id)
           /\ disk = pre
           /\ writes = 0
    /\ (call.op = "delete_epic" /\ call.id \notin DOMAIN pre.epics) =>
           /\ ret = NotFound("Epic", call.id)
           /\ disk = pre
           /\ writes = 0
    /\ (call.op = "update_epic_status" /\ call.epic_id \notin DOMAIN pre.epics) =>
           /\ ret = NotFound("Epic", call.epic_id)
           /\ disk = pre
           /\ writes = 0
    /\ (call.op = "update_story_status" /\ call.story_id \notin DOMAIN pre.stories) =>
           /\ ret = NotFound("Story", call.story_id)
           /\ disk = pre
           /\ writes = 0

\* create_story under a missing epic 1 failed in a document with an epic, a
\* story and a last_item that the in-memory insertion would have replaced
C6_Witness ==
    /\ call.op = "create_story"
    /\ call.epic_id = Some(1)
    /\ DOMAIN pre.epics = {0}
    /\ DOMAIN pre.stories = {0}
    /\ pre.last_item = ItemTypeNone
    /\ ret = NotFound("Epic", 1)

(* ------------------------------ C7 ------------------------------------- *)

\* C7 as stated: delete_story(s, ep) with s no key of stories returns a
\* NotFound error and leaves the persisted document unchanged, for every ep.
C7_Original ==
    (call.op = "delete_story" /\ call.story_id \notin DOMAIN pre.stories) =>
        /\ ret.kind = "Err"
        /\ disk = pre

\* C7 as amended: delete_story(s, ep) with s no key of stories leaves the
\* persisted document unchanged for every ep; it returns NotFound(Story s) for
\* ep = None and for an existing epic that lists s, NotFound(Epic u) for
\* ep = Some(u) with u no epic, and panics for an existing epic that does not
\* list s.
C7_MissingStory ==
    (call.op = "delete_story" /\ call.story_id \notin DOMAIN pre.stories) =>
        /\ disk = pre
        /\ writes = 0
        /\ ~call.epic_id.some => ret = NotFound("Story", call.story_id)
        /\ (call.epic_id.some /\ call.epic_id.id \notin DOMAIN pre.epics) =>
               ret = NotFound("Epic", call.epic_id.id)
        /\ (call.epic_id.some /\ call.epic_id.id \in DOMAIN pre.epics) =>
               IF call.story_id \in Listed(pre, call.epic_id.id)
               THEN ret = NotFound("Story", call.story_id)
               ELSE ret = Panic

\* a missing story was deleted under an existing epic that does not list it,
\* and the call panicked
C7_Witness ==
    /\ call.op = "delete_story"
    /\ call.story_id \notin DOMAIN pre.stories
    /\ call.epic_id.some
    /\ call.epic_id.id \in DOMAIN pre.epics
    /\ call.story_id \notin Listed(pre, call.epic_id.id)
    /\ Listed(pre, call.epic_id.id) # {}
    /\ ret = Panic

(* ------------------------------ C8 ------------------------------------- *)

\* C8: delete_story(s, Some(u)) with u no key of epics returns NotFound(Epic u)
\* also when story s exists, and the persisted document is unchanged (s still a
\* story, every stories list and last_item as before).
C8_MissingEpic ==
    (/\ call.op = "delete_story"
     /\ call.epic_id.some
     /\ call.epic_id.id \notin DOMAIN pre.epics) =>
        /\ ret = NotFound("Epic", call.epic_id.id)
        /\ disk.stories = pre.stories
        /\ disk.epics = pre.epics
        /\ disk.last_item = pre.last_item
        /\ writes = 0

\* story s existed, an epic listed it and last_item was Story(s) when it was
\* deleted under a missing epic
C8_Witness ==
    /\ call.op = "delete_story"
    /\ call.epic_id = Some(1)
    /\ DOMAIN pre.epics = {0}
    /\ call.story_id \in Listed(pre, 0)
    /\ call.story_id \in DOMAIN pre.stories
    /\ pre.last_item = ItemTypeStory(call.story_id)
    /\ ret = NotFound("Epic", 1)

(* ------------------------------ C9 ------------------------------------- *)

\* C9: after a successful create_epic returning n the persisted last_item is
\* Epic(n); after a successful create_story returning n, with or without an
\* epic, it is Story(n).
C9_LastItemOnCreate ==
    /\ Succeeded("create_epic") => disk.last_item = ItemTypeEpic(ret.value)
    /\ Succeeded("create_story") => disk.last_item = ItemTypeStory(ret.value)

\* a story was created under an epic while last_item referred to an epic of
\* the same number
C9_Witness ==
    /\ Succeeded("create_story")
    /\ call.epic_id.some
    /\ pre.last_item = ItemTypeEpic(ret.value)
    /\ disk.last_item = ItemTypeStory(ret.value)

(* ------------------------------ C10 ------------------------------------ *)

\* C10: after a successful delete that removes the item last_item refers to,
\* last_item is None: delete_epic(e) with last_item = Epic(e), delete_story(s, _)
\* with last_item = Story(s), and delete_epic(e) with last_item = Story(s) for
\* a story s that e lists.
C10_LastItemOnDelete ==
    /\ (Succeeded("delete_epic") /\ pre.last_item = ItemTypeEpic(call.id)) =>
           disk.last_item = ItemTypeNone
    /\ (Succeeded("delete_story") /\ pre.last_item = ItemTypeStory(call.story_id)) =>
           disk.last_item = ItemTypeNone
    /\ (/\ Succeeded("delete_epic")
        /\ pre.last_item.type = "Story"
        /\ pre.last_item.id \in Listed(pre, call.id)) =>
           disk.last_item = ItemTypeNone

(* ----------------------- vocabulary of the stack ----------------------- *)

\* the stack after is the stack before without its top page, or both are empty
PoppedOne(before, after) ==
    IF before = << >> THEN after = << >>
    ELSE /\ Len(after) = Len(before) - 1
         /\ \A i \in 1..Len(after) : after[i] = before[i]

\* the stack after is the stack before with the page on top
PushedOne(before, after, page) ==
    /\ Len(after) = Len(before) + 1
    /\ \A i \in 1..Len(before) : after[i] = before[i]
    /\ after[Len(after)] = page

DeleteTypes == {"DeleteEpic", "DeleteStory"}

(* ------------------------------ C11 ------------------------------------ *)

\* C11 as stated: when the user confirms a DeleteEpic or DeleteStory and the
\* store call returns an error, handle_action still pops exactly one page.
C11_Original ==
    [][(/\ action'.type \in DeleteTypes
        /\ action'.confirm
        /\ result'.kind = "Err") => PoppedOne(pages, pages')]_vars

\* C11 as amended: when the user confirms a DeleteEpic or DeleteStory and the
\* store call returns an error, handle_action returns that error under its
\* message and leaves the stack as it was: the pop is skipped.
C11_ErrorSkipsPop ==
    [][(/\ action'.type \in DeleteTypes
        /\ action'.confirm
        /\ result'.kind = "Err") =>
            /\ pages' = pages
            /\ calls' = 1
            /\ result'.source.kind = "Err"
            /\ result'.context = IF action'.type = "DeleteEpic"
                                 THEN "Failed to delete epic"
                                 ELSE "Failed to delete story"]_vars

\* a confirmed DeleteEpic of a missing epic failed on the page of that epic,
\* and the page is still the current one
C11_Witness ==
    /\ action.type = "DeleteEpic"
    /\ action.confirm
    /\ result.kind = "Err"
    /\ result.source = NotFound("Epic", action.epic_id)
    /\ pages = <<HomePage, EpicDetail(action.epic_id)>>

(* ------------------------------ C12 ------------------------------------ *)

\* C12: a DeleteEpic or DeleteStory the user does not confirm makes no store
\* call (the persisted document is unchanged), pops exactly one page of a
\* non-empty stack and returns success; a confirmed one whose store call
\* succeeds pops exactly one page as well.
C12_DeletePops ==
    [][/\ (action'.type \in DeleteTypes /\ ~action'.confirm) =>
              /\ calls' = 0
              /\ disk' = disk
              /\ PoppedOne(pages, pages')
              /\ result' = OkUnit
       /\ (action'.type \in DeleteTypes /\ action'.confirm /\ result'.kind = "Ok") =>
              /\ calls' = 1
              /\ PoppedOne(pages, pages')]_vars

\* an unconfirmed DeleteEpic of an existing epic left the home page only, the
\* epic still there
C12_Witness ==
    /\ action.type = "DeleteEpic"
    /\ ~action.confirm
    /\ action.epic_id \in DOMAIN disk.epics
    /\ calls = 0
    /\ pages = <<HomePage>>

(* ------------------------------ C13 ------------------------------------ *)

NavigateToTypes == {"NavigateToEpicDetail", "NavigateToStoryDetail"}

\* the page a NavigateTo action is to open
PageOf(a) ==
    IF a.type = "NavigateToEpicDetail" THEN EpicDetail(a.epic_id)
    ELSE StoryDetail(a.epic_id, a.story_id)

\* C13: the stack of a new Navigator is exactly [Home]; NavigateToEpicDetail(e)
\* and NavigateToStoryDetail(e, s) deepen the stack by exactly one, leave the
\* pages below as they were and make EpicDetail(e) / StoryDetail(e, s) the
\* current page, for any ids and any stack.
C13_NavigatePushes ==
    /\ pages = <<HomePage>>
    /\ [][action'.type \in NavigateToTypes =>
            /\ PushedOne(pages, pages', PageOf(action'))
            /\ get_current_page(pages') = [some |-> TRUE, page |-> PageOf(action')]
            /\ result' = OkUnit]_vars

\* the page of story 1 of epic 1 was opened on the stack [EpicDetail(0)]
\* while the document had no epic at all
C13_Witness ==
    /\ action.type = "NavigateToStoryDetail"
    /\ action.epic_id = 1
    /\ action.story_id = 1
    /\ pages = <<EpicDetail(0), StoryDetail(1, 1)>>
    /\ DOMAIN disk.epics = {}

(* ------------------------------ C14 ------------------------------------ *)

\* C14: NavigateToPreviousPage removes exactly the top page of a non-empty
\* stack and leaves an empty stack empty, and it always returns success; so
\* handling it right after a NavigateTo action gives back the stack the
\* NavigateTo action found.
C14_PreviousPage ==
    [][/\ action'.type = "NavigateToPreviousPage" =>
              /\ PoppedOne(pages, pages')
              /\ result' = OkUnit
       /\ action'.type \in NavigateToTypes =>
              \A a \in NavigateToPreviousPageActions :
                  /\ handle_action(pages', disk', a).pages = pages
                  /\ handle_action(pages', disk', a).result = OkUnit]_vars

\* NavigateToPreviousPage left the home page: it took one page off a stack of two
C14_Witness ==
    /\ action.type = "NavigateToPreviousPage"
    /\ pages = <<HomePage>>
    /\ result = OkUnit

(* ------------------------------ C15 ------------------------------------ *)

\* C15: Exit empties the stack from any depth, an empty stack included, and
\* makes no store call.
C15_Exit ==
    [][action'.type = "Exit" =>
            /\ pages' = << >>
            /\ calls' = 0
            /\ disk' = disk
            /\ result' = OkUnit]_vars

\* Exit was handled with epics in the document, and the stack is empty
C15_Witness ==
    /\ action.type = "Exit"
    /\ pages = << >>
    /\ DOMAIN disk.epics = {0, 1}

(* ------------------------------ C17 ------------------------------------ *)

CreateUpdateTypes ==
    {"CreateEpic", "CreateStory", "UpdateEpicStatus", "UpdateStoryStatus"}

\* C17: CreateEpic, CreateStory, UpdateEpicStatus and UpdateStoryStatus never
\* change the stack, whether the store call succeeds, fails or is skipped;
\* an update for which no status is chosen makes no store call, leaves the
\* persisted document unchanged and returns success.
C17_StackFrame ==
    [][action'.type \in CreateUpdateTypes =>
            /\ pages' = pages
            /\ (/\ action'.type \in {"UpdateEpicStatus", "UpdateStoryStatus"}
                /\ ~action'.status.some) =>
                   /\ calls' = 0
                   /\ disk' = disk
                   /\ result' = OkUnit]_vars

\* a story was created under epic 0 from the page of epic 0, which is still
\* the current page
C17_Witness ==
    /\ action.type = "CreateStory"
    /\ action.epic_id = 0
    /\ result = OkUnit
    /\ disk.last_item.type = "Story"
    /\ pages = <<HomePage, EpicDetail(0)>>

(* ------------------------------ C18 ------------------------------------ *)

\* C18: NavigateToEpicDetail, NavigateToStoryDetail, NavigateToPreviousPage
\* and Exit make no store call: epics, stories and last_item of the persisted
\* document are the same before and after, also for ids of no epic or story.
C18_NoStoreCall ==
    [][action'.type \in NavigateToTypes \cup {"NavigateToPreviousPage", "Exit"} =>
            /\ calls' = 0
            /\ disk'.epics = disk.epics
            /\ disk'.stories = disk.stories
            /\ disk'.last_item = disk.last_item]_vars

\* the page of epic 1 was opened while epic 0 was the only epic and the last
\* item was a story
C18_Witness ==
    /\ action.type = "NavigateToEpicDetail"
    /\ action.epic_id = 1
    /\ DOMAIN disk.epics = {0}
    /\ disk.last_item = ItemTypeStory(0)
    /\ calls = 0

(* ------------------------------ C16 ------------------------------------ *)

\* C16: the loop of main hands an action to handle_action only while the
\* stack is non-empty, and a turn that finds the stack empty ends the loop;
\* a turn in which handle_input or handle_action returned an error goes back
\* to the head of the loop, and after a failed handle_input the stack is the
\* one the turn found: a returned error never ends the loop.
C16_MainLoop ==
    [][/\ turn' \in {"handled", "handle failed", "panicked"} => pages # << >>
       /\ (pc = "loop" /\ pages = << >>) => pc' = "exited"
       /\ turn' \in {"input failed", "handle failed"} => pc' = "loop"
       /\ turn' = "input failed" => pages' = pages
       /\ turn' = "handle failed" =>
              /\ result'.kind = "Err"
              /\ pages' = pages]_vars

\* handle_action returned an error on the page of epic 0 and main is back at
\* the head of its loop with that page
C16_Witness ==
    /\ turn = "handle failed"
    /\ result.kind = "Err"
    /\ pc = "loop"
    /\ pages = <<HomePage, EpicDetail(0)>>

(* ------------------------------ C19 ------------------------------------ *)

IsPrefix(a, b) == Len(a) <= Len(b) /\ SubSeq(b, 1, Len(a)) = a

\* every detail page of the stack names an epic, or an epic and a story, of
\* the document
PagesExist(p, d) ==
    \A i \in 1..Len(p) :
        /\ p[i].page = "EpicDetail" => p[i].epic_id \in DOMAIN d.epics
        /\ p[i].page = "StoryDetail" =>
               /\ p[i].epic_id \in DOMAIN d.epics
               /\ p[i].story_id \in DOMAIN d.stories

\* C19, as stated: after any sequence of dispatched actions every
\* EpicDetail(e) on the stack names an epic of the document and every
\* StoryDetail(e, s) an epic and a story of the document.
C19_Original == PagesExist(pages, disk)

\* C19, amended: a NavigateTo action pushes the page of the ids it carries
\* whether or not the document has them, and no other action adds or alters
\* a page: every other action leaves a prefix of the stack it found. So a
\* detail page of the stack may name an epic or story the document lacks.
C19_PagesFromNavigation ==
    [][/\ action'.type \in NavigateToTypes =>
              PushedOne(pages, pages', PageOf(action'))
       /\ action'.type \notin NavigateToTypes => IsPrefix(pages', pages)]_vars

\* the page of epic 1 was opened and is the current page, and epic 0 is the
\* only epic of the document
C19_Witness ==
    /\ action.type = "NavigateToEpicDetail"
    /\ pages = <<HomePage, EpicDetail(1)>>
    /\ DOMAIN disk.epics = {0}
    /\ ~PagesExist(pages, disk)

(* ------------------------------ C20 ------------------------------------ *)

\* the detail d2 is the detail d1 with the status st
StatusSet(d1, d2, st) == d2 = [d1 EXCEPT !.status = st]

\* C20: a successful update_epic_status(e, st) sets the status of epic e to
\* st and leaves its name, description, id and stories, every other epic,
\* all stories and last_item as they were; a successful
\* update_story_status(s, st) does the same for story s, whether or not an
\* epic lists it.
C20_UpdateFrame ==
    /\ Succeeded("update_epic_status") =>
           /\ call.epic_id \in DOMAIN pre.epics
           /\ DOMAIN disk.epics = DOMAIN pre.epics
           /\ disk.epics[call.epic_id].detail.status = call.status
           /\ StatusSet(pre.epics[call.epic_id].detail,
                        disk.epics[call.epic_id].detail, call.status)
           /\ disk.epics[call.epic_id].stories = pre.epics[call.epic_id].stories
           /\ \A e \in DOMAIN pre.epics \ {call.epic_id} : disk.epics[e] = pre.epics[e]
           /\ disk.stories = pre.stories
           /\ disk.last_item = pre.last_item
           /\ writes = 1
    /\ Succeeded("update_story_status") =>
           /\ call.story_id \in DOMAIN pre.stories
           /\ DOMAIN disk.stories = DOMAIN pre.stories
           /\ disk.stories[call.story_id].detail.status = call.status
           /\ StatusSet(pre.stories[call.story_id].detail,
                        disk.stories[call.story_id].detail, call.status)
           /\ \A s \in DOMAIN pre.stories \ {call.story_id} :
                  disk.stories[s] = pre.stories[s]
           /\ disk.epics = pre.epics
           /\ disk.last_item = pre.last_item
           /\ writes = 1

\* story 1, which epic 0 lists, went from InProgress to Resolved while the
\* last item was an epic and story 0 was listed by no epic
C20_Witness ==
    /\ Succeeded("update_story_status")
    /\ call.story_id = 1
    /\ call.status = "Resolved"
    /\ pre.stories[1].detail.status = "InProgress"
    /\ 0 \in DOMAIN pre.epics
    /\ 1 \in Listed(pre, 0)
    /\ 0 \in DOMAIN pre.stories
    /\ \A e \in DOMAIN pre.epics : 0 \notin Listed(pre, e)
    /\ pre.last_item.type = "Epic"

(* ------------------------------ C21 ------------------------------------ *)

\* both callers read the document before either wrote it
Interleaved ==
    /\ Len(log) >= 2
    /\ log[1].step = "read"
    /\ log[2].step = "read"

\* both calls have returned Ok and were creates on the same collection
BothCreated ==
    /\ \A p \in Callers : span[p].pc = "done" /\ span[p].ret.kind = "Ok"
    /\ span[1].op = span[2].op

\* the collection a create works on
Collection(d, op) == IF op = "create_epic" THEN d.epics ELSE d.stories

\* C21: when two creates on the same collection both read the document
\* before either writes it, both return the same id and the final document
\* holds one of the two items only (the one written last); when the second
\* call reads after the first has written, the two ids differ and both items
\* are in the document.
C21_InterleavedCreates ==
    BothCreated =>
        LET op == span[1].op
            last == log[Len(log)].caller
            id1 == span[1].ret.value
            id2 == span[2].ret.value
        IN IF Interleaved
           THEN /\ id1 = id2
                /\ span[1].db = span[2].db
                /\ id1 \notin DOMAIN Collection(span[1].db, op)
                /\ DOMAIN Collection(disk, op) =
                       DOMAIN Collection(span[1].db, op) \cup {id1}
                /\ Collection(disk, op)[id1].detail.name = span[last].name
           ELSE /\ id1 # id2
                /\ {id1, id2} \subseteq DOMAIN Collection(disk, op)
                /\ Collection(disk, op)[id1].detail.name = span[1].name
                /\ Collection(disk, op)[id2].detail.name = span[2].name

\* two create_story calls under epic 0 both read a document that had story
\* 0, both returned 1, and the document holds one story 1, the second caller's
C21_Witness ==
    /\ BothCreated
    /\ Interleaved
    /\ span[1].op = "create_story"
    /\ span[1].epic_id = Some(0)
    /\ span[2].epic_id = Some(0)
    /\ span[1].ret = Ok(1)
    /\ span[2].ret = Ok(1)
    /\ log[Len(log)].caller = 2
    /\ DOMAIN disk.stories = {0, 1}
    /\ disk.stories[1].detail.name = "Logout"

(* ------------------------------ C22 ------------------------------------ *)

\* C22: from the empty document, create_epic returns 0, create_story under
\* epic 0 returns 0, delete_story(0, Some(0)) and then delete_epic(0) succeed;
\* after the delete_story epic 0 lists no story, and after the delete_epic
\* the document is the empty one again: no epic, no story, last_item None.
C22_CreateDeleteRoundTrip ==
    disk = EmptyDB =>
        \A name \in Names, description \in Descriptions :
            LET r1 == create_epic(disk, name, description)
                r2 == create_story(r1.disk, name, description, Some(0))
                r3 == delete_story(r2.disk, 0, Some(0))
                r4 == delete_epic(r3.disk, 0)
            IN /\ r1.ret = Ok(0)
               /\ r2.ret = Ok(0)
               /\ r2.disk.epics[0].stories = <<0>>
               /\ r3.ret = OkUnit
               /\ r3.disk.epics[0].stories = << >>
               /\ DOMAIN r3.disk.stories = {}
               /\ r4.ret = OkUnit
               /\ r4.disk = EmptyDB
               /\ r4.disk.last_item = ItemTypeNone

\* the last step of the sequence: delete_epic(0) found epic 0 alone, with an
\* empty stories list, no story and last_item None, and left the empty
\* document
C22_Witness ==
    /\ Succeeded("delete_epic")
    /\ call.id = 0
    /\ pre = delete_story(create_story(create_epic(EmptyDB, "Login", "text").disk,
                                       "Login", "text", Some(0)).disk,
                          0, Some(0)).disk
    /\ DOMAIN pre.epics = {0}
    /\ pre.last_item = ItemTypeNone
    /\ disk = EmptyDB

(* ------------------------------ C23 ------------------------------------ *)

\* C23: a read_db of a backend that follows a write_db(D) of that backend,
\* with no other write of it in between, returns Ok(D), for every document D
\* (with an epic that lists a story, with a story no epic lists, with
\* last_item None, Epic(id) or Story(id)); and a read_db leaves the content
\* of the backend as it found it.
C23_ReadAfterWrite ==
    got.backend \in {"json", "mock"} =>
        /\ got.since.some => got.ret = Ok(got.since.database)
        /\ got.left = got.found

\* the file was read after a write of a document with epic 0 listing story
\* 0, a story that no epic lists and last_item a story, and the read
\* returned that document
C23_Witness ==
    /\ got.backend = "json"
    /\ got.since.some
    /\ got.ret.kind = "Ok"
    /\ got.ret.value.last_item = ItemTypeStory(MaxStoryId)
    /\ DOMAIN got.ret.value.epics = {0}
    /\ got.ret.value.epics[0].stories = <<0>>
    /\ got.ret.value.epics[0].detail.status = "InProgress"
    /\ DOMAIN got.ret.value.stories = StoryIds
    /\ \A e \in DOMAIN got.ret.value.epics : MaxStoryId \notin Listed(got.ret.value, e)
    /\ got.found = file

(* ------------------------------ C24 ------------------------------------ *)

\* the places (epic, index) at which the document lists story s
Places(d, s) ==
    {<<e, i>> \in (DOMAIN d.epics) \X (1..MaxStories) :
        i <= Len(d.epics[e].stories) /\ d.epics[e].stories[i] = s}

\* C24: in every reachable state each story id is listed by at most one epic,
\* and at most once by that epic.
C24_OneOwner ==
    \A s \in StoryIds : Cardinality(Places(disk, s)) <= 1

(* ------------------------------ C25 ------------------------------------ *)

\* the sequence after is the sequence before without one occurrence of s,
\* the other ids in the order they had
RemovedOne(before, after, s) ==
    /\ Len(after) = Len(before) - 1
    /\ \E i \in 1..Len(before) :
           /\ before[i] = s
           /\ \A j \in 1..(i - 1) : after[j] = before[j]
           /\ \A j \in i..Len(after) : after[j] = before[j + 1]

C26_UnlistedPanics ==
    (/\ call.op = "delete_story"
     /\ call.epic_id.some
     /\ call.epic_id.id \in DOMAIN pre.epics
     /\ call.story_id \notin Listed(pre, call.epic_id.id)) =>
        /\ ret = Panic
        /\ writes = 0
        /\ disk = pre

\* story 1, which exists and which epic 0 does not list, was deleted under
\* epic 0, which lists story 0: the call panicked
C26_Witness ==
    /\ call.op = "delete_story"
    /\ call.story_id = 1
    /\ call.epic_id = Some(0)
    /\ 0 \in DOMAIN pre.epics
    /\ pre.epics[0].stories = <<0>>
    /\ 1 \in DOMAIN pre.stories
    /\ ret = Panic

(* ------------------------------ C27 ------------------------------------ *)

\* C27: in every reachable state delete_epic(e) returns an error only if e is
\* no key of epics: for an epic e of the document it succeeds and e is
\* removed.
C27_DeleteEpicSucceeds ==
    (call.op = "delete_epic" /\ call.id \in DOMAIN pre.epics) =>
        /\ ret.kind = "Ok"
        /\ call.id \notin DOMAIN disk.epics

(* ------------------------------ C28 ------------------------------------ *)

\* C28: in every state reachable from the empty document last_item is None
\* or names a key of its collection: Epic(k) a key of epics, Story(k) a key
\* of stories; so it is None when both collections are empty.
C28_LastItemRefers ==
    /\ disk.last_item.type = "Epic" => disk.last_item.id \in DOMAIN disk.epics
    /\ disk.last_item.type = "Story" => disk.last_item.id \in DOMAIN disk.stories
    /\ (DOMAIN disk.epics = {} /\ DOMAIN disk.stories = {}) =>
           disk.last_item = ItemTypeNone

(* ------------------------------ C29 ------------------------------------ *)

\* C29: in every state reachable from the empty document, last_item =
\* Epic(k) implies that epic k lists no story (an epic k that is not in the
\* document lists none); so a delete_epic that clears last_item on the copy
\* it read, which it does for last_item = Epic(id), never runs a non-empty
\* cascade, and no re-read after a non-empty cascade discards a clearing.
C29_LastEpicListsNothing ==
    /\ \A k \in DOMAIN disk.epics :
           disk.last_item = ItemTypeEpic(k) => disk.epics[k].stories = << >>
    /\ (/\ call.op = "delete_epic"
        /\ pre.last_item = ItemTypeEpic(call.id)
        /\ call.id \in DOMAIN pre.epics) =>
           /\ pre.epics[call.id].stories = << >>
           /\ writes <= 1

\* delete_epic(1) found last_item = Epic(1) and epic 1 without stories, while
\* epic 0 listed story 0
C29_Witness ==
    /\ Succeeded("delete_epic")
    /\ call.id = 1
    /\ pre.last_item = ItemTypeEpic(1)
    /\ DOMAIN pre.epics = {0, 1}
    /\ pre.epics[0].stories = <<0>>
    /\ pre.epics[1].stories = << >>

====
